---- MODULE Spec2Model ----
(***************************************************************************)
(* Model of median.c: the transition function median_transfn, the six      *)
(* sorted-insert routines (int8_cmp, int4_cmp, int2_cmp, float8_cmp,       *)
(* float4_cmp, string_cmp) and the final function median_finalfn of a      *)
(* PostgreSQL median aggregate.  The transition state is a SortMemoryState *)
(* (vals, num_vals) whose vals points at a singly linked list of SortVals  *)
(* nodes; nodes live in a heap indexed by address, NULL is address 0.      *)
(***************************************************************************)
EXTENDS Integers, Sequences, FiniteSets, TLC

VARIABLES
    argtype,   \* get_fn_expr_argtype(fcinfo->flinfo, 1): fixed per call site
    state,     \* the transition value the executor holds (PG_ARGISNULL(0) or a SortMemoryState)
    heap,      \* the SortVals nodes allocated in agg_context, by address
    result,    \* what the last call of median_finalfn produced
    ncmp,      \* number of loop iterations (comparisons) of the last median_transfn call
    lastOp,    \* the last call the executor made
    finals,    \* history: the median_finalfn calls that returned since the last median_transfn call
    status,    \* "running", "aborted" (elog(ERROR)) or "undefined" (undefined behaviour)
    inputs,    \* history: the non-null datums of the median_transfn calls that returned, in order
    nulls      \* history: the number of median_transfn calls with a null value that returned

vars == <<argtype, state, heap, result, ncmp, lastOp, finals, status, inputs, nulls>>

----------------------------------------------------------------------------
(* Bounds of the model *)

MaxRows == 4      \* non-null rows given to one aggregation
MaxNulls == 1     \* null rows given to one aggregation
MaxFinals == 2    \* calls of the final function in a row

----------------------------------------------------------------------------
(* Type oids the switch of median_transfn names, and one it does not *)

INT8OID == 20
INT2OID == 21
INT4OID == 23
TEXTOID == 25
FLOAT4OID == 700
FLOAT8OID == 701
TIMESTAMPTZOID == 1184
NUMERICOID == 1700

SupportedOids == {TIMESTAMPTZOID, INT8OID, INT4OID, INT2OID, FLOAT4OID, FLOAT8OID, TEXTOID}
AllOids == SupportedOids \cup {NUMERICOID}
IntOids == {TIMESTAMPTZOID, INT8OID, INT4OID, INT2OID}
FloatOids == {FLOAT4OID, FLOAT8OID}

NULL == 0

----------------------------------------------------------------------------
(* Datums.  Integers are themselves; a float is [nan, num] (num is unused  *)
(* when nan); a text is the tuple of its bytes, 1..255 each.               *)

Flt(x) == [nan |-> FALSE, num |-> x]
NaN == [nan |-> TRUE, num |-> 0]

apple == <<97, 112, 112, 108, 101>>
banana == <<98, 97, 110, 97, 110, 97>>
cherry == <<99, 104, 101, 114, 114, 121>>
app == <<97, 112, 112>>
eacute == <<195, 169>>

Datums(oid) ==
    IF oid = INT4OID THEN 1..5
    ELSE IF oid = INT2OID THEN {-32768, -1, 0, 32767}
    ELSE IF oid \in IntOids THEN {-1, 0, 1}
    ELSE IF oid \in FloatOids THEN {NaN, Flt(0), Flt(1), Flt(2)}
    ELSE IF oid = TEXTOID THEN {apple, banana, cherry, app, eacute}
    ELSE {7, 8}

----------------------------------------------------------------------------
(* The comparisons of the six insert routines *)

\* text_to_cstring: the bytes of the text followed by the terminating NUL
text_to_cstring(t) == Append(t, 0)

\* strcmp(a, b) on NUL-terminated strings: bytes compare as unsigned char
RECURSIVE strcmp_from(_, _, _)
strcmp_from(a, b, i) ==
    IF a[i] # b[i] THEN a[i] - b[i]
    ELSE IF a[i] = 0 THEN 0
    ELSE strcmp_from(a, b, i + 1)

\* the same with the bytes read as signed char
RECURSIVE strcmp_signed_from(_, _, _)
strcmp_signed_from(a, b, i) ==
    IF a[i] # b[i]
    THEN (IF a[i] >= 128 THEN a[i] - 256 ELSE a[i]) - (IF b[i] >= 128 THEN b[i] - 256 ELSE b[i])
    ELSE IF a[i] = 0 THEN 0
    ELSE strcmp_signed_from(a, b, i + 1)

strcmp_signed(a, b) == strcmp_signed_from(a, b, 1)

strcmp(a, b) == strcmp_from(a, b, 1)

\* `currval <= newval` at the width of each routine; for float and double
\* the C comparison is false when either operand is a NaN
currval_le_newval(oid, currval, newval) ==
    IF oid \in IntOids THEN currval <= newval
    ELSE IF oid \in FloatOids THEN ~currval.nan /\ ~newval.nan /\ currval.num <= newval.num
    ELSE strcmp(text_to_cstring(currval), text_to_cstring(newval)) <= 0

----------------------------------------------------------------------------
(* The loop shared, line for line, by the six insert routines.             *)
(* Returns the new head, the heap and the number of iterations.            *)

\* the loop with the middle insert forgetting (*new_val_node)->next = sort_vals
RECURSIVE cmp_loop_drops_tail(_, _, _, _, _, _, _, _)
cmp_loop_drops_tail(oid, newval, new_val_node, sort_vals_head, sort_vals, sort_vals_prev, hp, n) ==
    IF sort_vals = NULL
    THEN [head |-> sort_vals_head, heap |-> hp, ncmp |-> n]
    ELSE IF currval_le_newval(oid, hp[sort_vals].val, newval)
    THEN LET nxt == hp[sort_vals].next
             hp1 == IF nxt = NULL THEN [hp EXCEPT ![sort_vals].next = new_val_node] ELSE hp
         IN cmp_loop_drops_tail(oid, newval, new_val_node, sort_vals_head, nxt, sort_vals, hp1, n + 1)
    ELSE IF sort_vals = sort_vals_head
    THEN [head |-> new_val_node,
          heap |-> [hp EXCEPT ![new_val_node].next = sort_vals_head],
          ncmp |-> n + 1]
    ELSE [head |-> sort_vals_head,
          heap |-> [hp EXCEPT ![sort_vals_prev].next = new_val_node],
          ncmp |-> n + 1]

\* the loop with the middle insert linking the new node back to sort_vals_prev
RECURSIVE cmp_loop_links_back(_, _, _, _, _, _, _, _)
cmp_loop_links_back(oid, newval, new_val_node, sort_vals_head, sort_vals, sort_vals_prev, hp, n) ==
    IF sort_vals = NULL
    THEN [head |-> sort_vals_head, heap |-> hp, ncmp |-> n]
    ELSE IF currval_le_newval(oid, hp[sort_vals].val, newval)
    THEN LET nxt == hp[sort_vals].next
             hp1 == IF nxt = NULL THEN [hp EXCEPT ![sort_vals].next = new_val_node] ELSE hp
         IN cmp_loop_links_back(oid, newval, new_val_node, sort_vals_head, nxt, sort_vals, hp1, n + 1)
    ELSE IF sort_vals = sort_vals_head
    THEN [head |-> new_val_node,
          heap |-> [hp EXCEPT ![new_val_node].next = sort_vals_head],
          ncmp |-> n + 1]
    ELSE [head |-> sort_vals_head,
          heap |-> [hp EXCEPT ![sort_vals_prev].next = new_val_node,
                              ![new_val_node].next = sort_vals_prev],
          ncmp |-> n + 1]

RECURSIVE cmp_loop(_, _, _, _, _, _, _, _)
cmp_loop(oid, newval, new_val_node, sort_vals_head, sort_vals, sort_vals_prev, hp, n) ==
    IF sort_vals = NULL
    THEN [head |-> sort_vals_head, heap |-> hp, ncmp |-> n]
    ELSE IF currval_le_newval(oid, hp[sort_vals].val, newval)
    THEN LET nxt == hp[sort_vals].next
             \* if (!inserted && sort_vals == NULL) sort_vals_prev->next = *new_val_node
             hp1 == IF nxt = NULL THEN [hp EXCEPT ![sort_vals].next = new_val_node] ELSE hp
         IN cmp_loop(oid, newval, new_val_node, sort_vals_head, nxt, sort_vals, hp1, n + 1)
    ELSE IF sort_vals = sort_vals_head
    THEN [head |-> new_val_node,
          heap |-> [hp EXCEPT ![new_val_node].next = sort_vals_head],
          ncmp |-> n + 1]
    ELSE [head |-> sort_vals_head,
          heap |-> [hp EXCEPT ![sort_vals_prev].next = new_val_node,
                              ![new_val_node].next = sort_vals],
          ncmp |-> n + 1]

int8_cmp(newval, new_val_node, sort_vals_head, hp) ==
    cmp_loop(INT8OID, newval, new_val_node, sort_vals_head, sort_vals_head, NULL, hp, 0)
int4_cmp(newval, new_val_node, sort_vals_head, hp) ==
    cmp_loop(INT4OID, newval, new_val_node, sort_vals_head, sort_vals_head, NULL, hp, 0)
int2_cmp(newval, new_val_node, sort_vals_head, hp) ==
    cmp_loop(INT2OID, newval, new_val_node, sort_vals_head, sort_vals_head, NULL, hp, 0)
float8_cmp(newval, new_val_node, sort_vals_head, hp) ==
    cmp_loop(FLOAT8OID, newval, new_val_node, sort_vals_head, sort_vals_head, NULL, hp, 0)
float4_cmp(newval, new_val_node, sort_vals_head, hp) ==
    cmp_loop(FLOAT4OID, newval, new_val_node, sort_vals_head, sort_vals_head, NULL, hp, 0)
string_cmp(newval, new_val_node, sort_vals_head, hp) ==
    cmp_loop(TEXTOID, newval, new_val_node, sort_vals_head, sort_vals_head, NULL, hp, 0)

----------------------------------------------------------------------------
(* median_transfn *)

NoState == [present |-> FALSE, vals |-> NULL, num_vals |-> 0]

\* lines 61-72: take the state passed in, or allocate one with vals = NULL, num_vals = 0
init_state(st) ==
    IF st.present THEN st ELSE [present |-> TRUE, vals |-> NULL, num_vals |-> 0]

first_value_uncounted(st, hp, datum) ==
    LET hp1 == Append(hp, [val |-> datum, next |-> NULL])
    IN [state |-> [st EXCEPT !.vals = Len(hp1)], heap |-> hp1, ncmp |-> 0]

\* lines 76-85: the first value becomes the head; no routine is called
first_value(st, hp, datum) ==
    LET hp1 == Append(hp, [val |-> datum, next |-> NULL])
    IN [state |-> [st EXCEPT !.num_vals = 1, !.vals = Len(hp1)], heap |-> hp1, ncmp |-> 0]

\* the switch without its TEXTOID case
insert_switch_no_text(oid, datum, new_val_node, sort_vals_head, hp) ==
    IF oid \in {TIMESTAMPTZOID, INT8OID} THEN int8_cmp(datum, new_val_node, sort_vals_head, hp)
    ELSE IF oid = INT4OID THEN int4_cmp(datum, new_val_node, sort_vals_head, hp)
    ELSE IF oid = INT2OID THEN int2_cmp(datum, new_val_node, sort_vals_head, hp)
    ELSE IF oid = FLOAT4OID THEN float4_cmp(datum, new_val_node, sort_vals_head, hp)
    ELSE IF oid = FLOAT8OID THEN float8_cmp(datum, new_val_node, sort_vals_head, hp)
    ELSE [head |-> sort_vals_head, heap |-> hp, ncmp |-> 0]

\* lines 94-122: the switch on argtype; no case, no call: the head is kept
insert_switch(oid, datum, new_val_node, sort_vals_head, hp) ==
    IF oid \in {TIMESTAMPTZOID, INT8OID} THEN int8_cmp(datum, new_val_node, sort_vals_head, hp)
    ELSE IF oid = INT4OID THEN int4_cmp(datum, new_val_node, sort_vals_head, hp)
    ELSE IF oid = INT2OID THEN int2_cmp(datum, new_val_node, sort_vals_head, hp)
    ELSE IF oid = FLOAT4OID THEN float4_cmp(datum, new_val_node, sort_vals_head, hp)
    ELSE IF oid = FLOAT8OID THEN float8_cmp(datum, new_val_node, sort_vals_head, hp)
    ELSE IF oid = TEXTOID THEN string_cmp(datum, new_val_node, sort_vals_head, hp)
    ELSE [head |-> sort_vals_head, heap |-> hp, ncmp |-> 0]

\* lines 86-130: allocate the node, insert it, store the head, count it
next_value(oid, st, hp, datum) ==
    LET hp1 == Append(hp, [val |-> datum, next |-> NULL])
        r == insert_switch(oid, datum, Len(hp1), st.vals, hp1)
    IN [state |-> [st EXCEPT !.vals = r.head, !.num_vals = st.num_vals + 1],
        heap |-> r.heap, ncmp |-> r.ncmp]

\* the whole function, after the AggCheckCallContext test
median_transfn(oid, st, hp, isnull, datum) ==
    LET st0 == init_state(st)
    IN IF isnull THEN [state |-> st0, heap |-> hp, ncmp |-> 0]
       ELSE IF st0.vals = NULL THEN first_value(st0, hp, datum)
       ELSE next_value(oid, st0, hp, datum)

----------------------------------------------------------------------------
(* median_finalfn *)

median_index_rounded_up(num_vals) == (num_vals + 1) \div 2

\* line 409
median_index(num_vals) == num_vals \div 2

\* for(i = 0; i < median_index; i++) sort_vals = sort_vals->next;
\* reading ->next of the null pointer is undefined: "ub"
RECURSIVE walk(_, _, _)
walk(hp, sort_vals, i) ==
    IF i = 0 THEN [ub |-> FALSE, ptr |-> sort_vals]
    ELSE IF sort_vals = NULL THEN [ub |-> TRUE, ptr |-> NULL]
    ELSE walk(hp, hp[sort_vals].next, i - 1)

\* a final function that unlinks the nodes it walks over
median_finalfn_consuming(st, hp) ==
    IF ~st.present THEN [tag |-> "null", state |-> st, heap |-> hp]
    ELSE LET w == walk(hp, st.vals, median_index(st.num_vals))
         IN IF w.ub \/ w.ptr = NULL
            THEN [tag |-> "ub", state |-> st, heap |-> hp]
            ELSE [tag |-> "datum", val |-> hp[w.ptr].val,
                  state |-> [st EXCEPT !.vals = w.ptr], heap |-> hp]

\* a final function without the test for an absent state
median_finalfn_unchecked(st, hp) ==
    LET w == walk(hp, st.vals, median_index(st.num_vals))
    IN IF w.ub \/ w.ptr = NULL
       THEN [tag |-> "ub", state |-> st, heap |-> hp]
       ELSE [tag |-> "datum", val |-> hp[w.ptr].val, state |-> st, heap |-> hp]

\* the whole function, after the AggCheckCallContext test: what it returns
\* and the state and heap it leaves
median_finalfn(st, hp) ==
    IF ~st.present THEN [tag |-> "null", state |-> st, heap |-> hp]
    ELSE LET w == walk(hp, st.vals, median_index(st.num_vals))
         IN IF w.ub \/ w.ptr = NULL
            THEN [tag |-> "ub", state |-> st, heap |-> hp]
            ELSE [tag |-> "datum", val |-> hp[w.ptr].val, state |-> st, heap |-> hp]

\* what a read through the null pointer can give: the backend is killed by
\* the signal, or the read yields some datum
UBResults == {[tag |-> "crash"]} \cup {[tag |-> "garbage"]}

----------------------------------------------------------------------------
(* The entry of both functions: AggCheckCallContext, then the body *)

\* a transition function that tests the context after preparing the state
median_transfn_call_late_check(in_agg, oid, st, hp, isnull, datum) ==
    IF ~in_agg THEN [error |-> TRUE, state |-> init_state(st), heap |-> hp]
    ELSE LET r == median_transfn(oid, st, hp, isnull, datum)
         IN [error |-> FALSE, state |-> r.state, heap |-> r.heap, ncmp |-> r.ncmp]

\* lines 59-131: elog(ERROR) leaves the function before the state is touched
median_transfn_call(in_agg, oid, st, hp, isnull, datum) ==
    IF ~in_agg THEN [error |-> TRUE, state |-> st, heap |-> hp]
    ELSE LET r == median_transfn(oid, st, hp, isnull, datum)
         IN [error |-> FALSE, state |-> r.state, heap |-> r.heap, ncmp |-> r.ncmp]

\* lines 403-418
median_finalfn_call(in_agg, st, hp) ==
    IF ~in_agg THEN [tag |-> "error", state |-> st, heap |-> hp]
    ELSE median_finalfn(st, hp)

----------------------------------------------------------------------------
(* The executor's calls *)

Init ==
    /\ argtype \in AllOids
    /\ state = NoState
    /\ heap = <<>>
    /\ result = [tag |-> "none"]
    /\ ncmp = 0
    /\ lastOp = "none"
    /\ finals = 0
    /\ status = "running"
    /\ inputs = <<>>
    /\ nulls = 0

\* median_transfn with a non-null value, in an aggregate context
TransfnValue ==
    /\ status = "running"
    /\ Len(inputs) < MaxRows
    /\ \E datum \in Datums(argtype) :
          LET r == median_transfn(argtype, state, heap, FALSE, datum)
          IN /\ state' = r.state
             /\ heap' = r.heap
             /\ ncmp' = r.ncmp
             /\ inputs' = Append(inputs, datum)
    /\ lastOp' = "accept"
    /\ finals' = 0
    /\ UNCHANGED <<argtype, result, status, nulls>>

\* median_transfn with a null value, in an aggregate context
TransfnNull ==
    /\ status = "running"
    /\ nulls < MaxNulls
    /\ LET r == median_transfn(argtype, state, heap, TRUE, NULL)
       IN /\ state' = r.state
          /\ heap' = r.heap
          /\ ncmp' = r.ncmp
    /\ nulls' = nulls + 1
    /\ lastOp' = "null"
    /\ finals' = 0
    /\ UNCHANGED <<argtype, result, status, inputs>>

\* median_finalfn in an aggregate context, on a state it can walk
FinalfnReturns ==
    /\ status = "running"
    /\ finals < MaxFinals
    /\ LET r == median_finalfn(state, heap)
       IN /\ r.tag # "ub"
          /\ result' = IF r.tag = "null" THEN [tag |-> "null"]
                       ELSE [tag |-> "datum", val |-> r.val]
          /\ state' = r.state
          /\ heap' = r.heap
    /\ lastOp' = "final"
    /\ finals' = finals + 1
    /\ UNCHANGED <<argtype, ncmp, status, inputs, nulls>>

\* median_finalfn in an aggregate context, reading through the null pointer
FinalfnUndefined ==
    /\ status = "running"
    /\ LET r == median_finalfn(state, heap)
       IN /\ r.tag = "ub"
          /\ state' = r.state
          /\ heap' = r.heap
    /\ result' \in UBResults
    /\ status' = "undefined"
    /\ lastOp' = "final"
    /\ UNCHANGED <<argtype, ncmp, finals, inputs, nulls>>

\* lines 59-60: median_transfn outside an aggregate context: elog(ERROR)
TransfnNoContext ==
    /\ status = "running"
    \* the arguments are not read before the error: a null value stands for any
    /\ LET r == median_transfn_call(FALSE, argtype, state, heap, TRUE, NULL)
       IN /\ r.error
          /\ state' = r.state
          /\ heap' = r.heap
    /\ status' = "aborted"
    /\ lastOp' = "accept_error"
    /\ UNCHANGED <<argtype, result, ncmp, finals, inputs, nulls>>

\* lines 403-404: median_finalfn outside an aggregate context: elog(ERROR)
FinalfnNoContext ==
    /\ status = "running"
    /\ LET r == median_finalfn_call(FALSE, state, heap)
       IN /\ r.tag = "error"
          /\ result' = [tag |-> "error"]
          /\ state' = r.state
          /\ heap' = r.heap
    /\ status' = "aborted"
    /\ lastOp' = "final_error"
    /\ UNCHANGED <<argtype, ncmp, finals, inputs, nulls>>

Next ==
    \/ TransfnValue
    \/ TransfnNull
    \/ FinalfnReturns
    \/ FinalfnUndefined
    \/ TransfnNoContext
    \/ FinalfnNoContext

Spec == Init /\ [][Next]_vars

----------------------------------------------------------------------------
(* Reading the store: ordered_values is the list from state.vals, count is *)
(* state.num_vals                                                          *)

\* the addresses reached from p by ->next, in order, until NULL
RECURSIVE list_from(_, _, _)
list_from(hp, p, fuel) ==
    IF p = NULL \/ fuel = 0 THEN <<>>
    ELSE <<p>> \o list_from(hp, hp[p].next, fuel - 1)

nodes_of(st, hp) == list_from(hp, st.vals, Len(hp))
values_of(st, hp) == [i \in 1..Len(nodes_of(st, hp)) |-> hp[nodes_of(st, hp)[i]].val]

ordered_nodes == nodes_of(state, heap)
ordered_values == values_of(state, heap)

(* The ordering of each kind: numeric order for the integers, numeric      *)
(* order with NaN equal to NaN and above every number for the floats (the  *)
(* total order of the host's float types), lexicographic order of the      *)
(* bytes for text                                                          *)

LexLE(a, b) ==
    \E k \in 0..Len(a) :
        /\ k <= Len(b)
        /\ \A i \in 1..k : a[i] = b[i]
        /\ (k = Len(a) \/ (k < Len(b) /\ a[k + 1] < b[k + 1]))

KindLE(oid, a, b) ==
    IF oid \in IntOids THEN a <= b
    ELSE IF oid \in FloatOids THEN b.nan \/ (~a.nan /\ a.num <= b.num)
    ELSE LexLE(a, b)

KindLT(oid, a, b) == KindLE(oid, a, b) /\ ~KindLE(oid, b, a)

\* v stands at zero-based position k of the ascending sort of s
IsSortedAt(oid, s, k, v) ==
    /\ \E i \in 1..Len(s) : s[i] = v
    /\ Cardinality({i \in 1..Len(s) : KindLT(oid, s[i], v)}) <= k
    /\ k < Cardinality({i \in 1..Len(s) : KindLE(oid, s[i], v)})

----------------------------------------------------------------------------
(* C1: for every non-empty sequence of non-null values of one supported    *)
(* kind, median_finalfn returns the element at zero-based position         *)
(* floor(n/2) of the ascending sort of the n inputs.                       *)
C1_FinalizeReturnsMiddleOfSorted ==
    (argtype \in SupportedOids /\ lastOp = "final" /\ Len(inputs) > 0)
        => /\ result.tag = "datum"
           /\ IsSortedAt(argtype, inputs, Len(inputs) \div 2, result.val)

(* C2: for a supported kind, between calls the list read from the head is  *)
(* non-decreasing under the kind's ordering.                               *)
C2_ListSorted ==
    argtype \in SupportedOids
        => \A i \in 1..(Len(ordered_values) - 1) :
               KindLE(argtype, ordered_values[i], ordered_values[i + 1])

(* C3: for a supported kind, num_vals equals the number of median_transfn  *)
(* calls with a non-null value that returned, and equals the number of     *)
(* nodes on the list (so every such call, the first included, adds one).   *)
C3_CountInvariant ==
    argtype \in SupportedOids
        => /\ state.num_vals = Len(inputs)
           /\ Len(ordered_nodes) = state.num_vals

C3_Witness ==
    /\ argtype \in SupportedOids
    /\ lastOp = "accept"
    /\ nulls = 1
    /\ Len(inputs) = 3
    /\ state.num_vals = 3

(* C4: a median_transfn call with a value of a kind outside the supported  *)
(* ones raises an error and changes neither num_vals nor the list.         *)
C4_UnsupportedKindRejected ==
    [][(argtype \notin SupportedOids /\ lastOp' = "accept")
          => /\ status' = "aborted"
             /\ state'.num_vals = state.num_vals
             /\ values_of(state', heap') = values_of(state, heap)]_vars

(* C5: median_finalfn on a store with num_vals = 0 (only null values, or   *)
(* no call at all) returns null.                                           *)
C5_EmptyGroupReturnsNull ==
    (lastOp = "final" /\ state.num_vals = 0) => result.tag = "null"

(* C6: an accepted value of a supported kind is spliced in immediately     *)
(* before the first stored element that is strictly greater, at the tail   *)
(* if there is none; so on the list elements that compare equal stand in   *)
(* the order in which they were accepted (the order of their addresses).   *)
C6_Stability ==
    [][(argtype \in SupportedOids /\ lastOp' = "accept")
          => LET old == nodes_of(state, heap)
                 new == nodes_of(state', heap')
                 node == Len(heap')
                 v == heap'[node].val
                 gt == {i \in 1..Len(old) : KindLT(argtype, v, heap[old[i]].val)}
                 pos == IF gt = {} THEN Len(old) + 1
                        ELSE CHOOSE i \in gt : \A j \in gt : i <= j
             IN /\ new = SubSeq(old, 1, pos - 1) \o <<node>> \o SubSeq(old, pos, Len(old))
                /\ \A i, j \in 1..Len(new) :
                      (i < j /\ KindLE(argtype, heap'[new[i]].val, heap'[new[j]].val)
                             /\ KindLE(argtype, heap'[new[j]].val, heap'[new[i]].val))
                         => new[i] < new[j]]_vars

(* C7: after exactly one accepted value v, of any kind, the list is <<v>>, *)
(* no comparison was made to store it, and median_finalfn returns v.       *)
C7_SingleValue ==
    /\ (Len(inputs) = 1 /\ lastOp = "accept") => (ncmp = 0 /\ ordered_values = inputs)
    /\ (Len(inputs) = 1 /\ lastOp = "final")
          => (result.tag = "datum" /\ result.val = inputs[1])

C7_Witness ==
    /\ Len(inputs) = 1
    /\ nulls = 1
    /\ lastOp = "final"
    /\ result.tag = "datum"

(* C8: a call of median_finalfn that returns leaves num_vals, vals and     *)
(* every node unchanged, and a second call in a row returns what the       *)
(* first returned.                                                         *)
C8_FinalizeReadOnlyIdempotent ==
    [][(lastOp' = "final")
          => /\ state' = state
             /\ heap' = heap
             /\ (finals >= 1 /\ finals' = finals + 1)
                   => /\ result'.tag = result.tag
                      /\ (result.tag = "datum" => result'.val = result.val)]_vars

C8_Witness ==
    /\ finals = 2
    /\ Len(inputs) >= 2
    /\ result.tag = "datum"

(* C9: for text the list is sorted under the lexicographic order of the    *)
(* bytes; "banana", "apple", "cherry" give apple, banana, cherry and       *)
(* median_finalfn returns "banana".                                        *)
C9_TextOrdering ==
    argtype = TEXTOID
        => /\ \A i \in 1..(Len(ordered_values) - 1) :
                 LexLE(ordered_values[i], ordered_values[i + 1])
           /\ inputs = <<banana, apple, cherry>>
                 => /\ ordered_values = <<apple, banana, cherry>>
                    /\ lastOp = "final" => (result.tag = "datum" /\ result.val = banana)

C9_Witness ==
    /\ argtype = TEXTOID
    /\ inputs = <<banana, apple, cherry>>
    /\ lastOp = "final"
    /\ result.tag = "datum"

\* the store median_transfn builds from the non-null values alone
RECURSIVE replay(_, _, _, _)
replay(oid, st, hp, s) ==
    IF s = <<>> THEN [state |-> st, heap |-> hp]
    ELSE LET r == median_transfn(oid, st, hp, FALSE, Head(s))
         IN replay(oid, r.state, r.heap, Tail(s))

without_nulls == replay(argtype, NoState, <<>>, inputs)

(* C10: null rows, wherever they stand among the rows, change neither the  *)
(* store reached (num_vals, the list) nor what median_finalfn gives: both  *)
(* are those of the non-null rows alone.                                   *)
C10_NullRowsChangeNothing ==
    /\ state.num_vals = without_nulls.state.num_vals
    /\ ordered_values = values_of(without_nulls.state, without_nulls.heap)
    /\ lastOp = "final"
          => LET alone == median_finalfn(without_nulls.state, without_nulls.heap)
             IN /\ alone.tag = "ub" => status = "undefined"
                /\ alone.tag # "ub" => result.tag = alone.tag
                /\ alone.tag = "datum" => result.val = alone.val

\* the sequence s without its entries equal to x
without(s, x) == SelectSeq(s, LAMBDA y : y # x)

(* C11: a median_transfn call with a non-null value changes the list only  *)
(* by adding the new node: the new list without the new node is the old    *)
(* list (every stored node still there, once, in the same order), and for  *)
(* a supported kind the new node is on it once, so that after any calls    *)
(* the list holds every node ever allocated exactly once.                  *)
C11_AcceptOnlyAdds ==
    [][(lastOp' = "accept")
          => LET old == nodes_of(state, heap)
                 new == nodes_of(state', heap')
                 node == Len(heap')
             IN /\ Len(heap') = Len(heap) + 1
                /\ without(new, node) = old
                /\ \A a \in 1..Len(heap) : heap'[a].val = heap[a].val
                /\ heap'[node].val = inputs'[Len(inputs')]
                /\ argtype \in SupportedOids
                      => /\ Len(new) = Len(old) + 1
                         /\ {new[i] : i \in 1..Len(new)} = 1..Len(heap')]_vars

C11_Witness ==
    /\ argtype \in SupportedOids
    /\ lastOp = "accept"
    /\ Len(inputs) = 4
    /\ ordered_nodes = <<3, 1, 4, 2>>

(* C12: in every store reached by median_transfn calls with null values or *)
(* values of one supported kind that holds at least one value,             *)
(* floor(num_vals / 2) is at most the length of the list less one, and the *)
(* walk of median_finalfn reads no link of the null pointer and stops on a *)
(* node of the list.                                                       *)
C12_WalkStaysOnList ==
    (argtype \in SupportedOids /\ state.num_vals >= 1)
        => /\ state.num_vals \div 2 <= Len(ordered_nodes) - 1
           /\ LET w == walk(heap, state.vals, state.num_vals \div 2)
              IN /\ ~w.ub
                 /\ w.ptr # NULL
                 /\ w.ptr = ordered_nodes[state.num_vals \div 2 + 1]
           /\ lastOp = "final" => (status = "running" /\ result.tag = "datum")

C12_Witness ==
    /\ argtype \in SupportedOids
    /\ state.num_vals = 4
    /\ nulls = 1
    /\ lastOp = "final"
    /\ result.tag = "datum"

(* C13: median_finalfn called with no state (median_transfn was never      *)
(* called) returns null; it is not undefined and leaves state and heap.    *)
C13_AbsentStateReturnsNull ==
    /\ ~state.present <=> (Len(inputs) = 0 /\ nulls = 0)
    /\ (lastOp = "final" /\ ~state.present)
          => /\ result.tag = "null"
             /\ status = "running"
             /\ state = NoState
             /\ heap = <<>>

C13_Witness ==
    /\ lastOp = "final"
    /\ ~state.present
    /\ finals = 1
    /\ result.tag = "null"

\* the nodes of the list are distinct and the last one's link is NULL
acyclic_null_terminated(st, hp) ==
    LET l == nodes_of(st, hp)
    IN /\ \A i, j \in 1..Len(l) : i # j => l[i] # l[j]
       /\ IF l = <<>> THEN st.vals = NULL ELSE hp[l[Len(l)]].next = NULL

(* C14: for a supported kind the list is always acyclic and ends in NULL,  *)
(* and a median_transfn call with a non-null value makes at most as many   *)
(* comparisons as the list held elements before it, leaving the new node   *)
(* on the list.                                                            *)
C14_AcyclicBoundedScan ==
    argtype \in SupportedOids
        => /\ acyclic_null_terminated(state, heap)
           /\ lastOp = "accept"
                 => /\ ncmp <= Len(ordered_nodes) - 1
                    /\ \E i \in 1..Len(ordered_nodes) : ordered_nodes[i] = Len(heap)

C14_Witness ==
    /\ argtype \in SupportedOids
    /\ lastOp = "accept"
    /\ Len(ordered_nodes) = 4
    /\ ncmp = 3
    /\ ordered_nodes[4] = 4

(* C15: a call of median_transfn or median_finalfn outside an aggregate    *)
(* context ends in an error with the state and the heap as they were (no   *)
(* state created, none modified), hands back no state and no result, and   *)
(* the aggregation is abandoned: no call follows.                          *)
C15_InvalidContextFatal ==
    [][/\ status # "aborted"
       /\ lastOp' \in {"accept_error", "final_error"}
             => /\ status' = "aborted"
                /\ state' = state
                /\ heap' = heap
                /\ inputs' = inputs
                /\ nulls' = nulls
                /\ lastOp' = "accept_error" => result' = result
                /\ lastOp' = "final_error" => result'.tag = "error"]_vars

C15_Witness ==
    /\ status = "aborted"
    /\ lastOp = "accept_error"
    /\ ~state.present
    /\ heap = <<>>

====
